---- MODULE Spec2Model ----
(***************************************************************************)
(* Model of src/server.c of the latency benchmark: the request router      *)
(* (mongoose_begin_request_callback), the keep-alive streaming handler,    *)
(* the in-memory file server and the control loop of run_server.           *)
(*                                                                         *)
(* Threads: the main thread runs run_server; each worker of the mongoose   *)
(* pool runs mongoose_begin_request_callback for one request at a time.    *)
(* Every shared-memory access of the source is one step of the model.      *)
(***************************************************************************)
EXTENDS Integers, Sequences, FiniteSets, TLC

---------------------------------------------------------------------------
(* Bounds of the model.                                                    *)

\* Workers of the pool that are modelled (the pool of server.c:241 has 32).
NumWorkers == 2

\* Keep-alive requests accepted in one behaviour.
MaxSessions == 2

\* Warm-up chunks of one keep-alive stream in the model (server.c:175 has
\* 2048; the loop is the same for every count).
MaxWarmup == 2

\* Bytes of a magic pattern in the model (pattern_magic_bytes of
\* latency-benchmark.h; each byte is two hex characters).
PatternBytes == 1

---------------------------------------------------------------------------
(* Program constants.                                                      *)

warmup_chunks == MaxWarmup

pattern_magic_bytes == PatternBytes

hex_pattern_length == 2 * pattern_magic_bytes

max_path == 2048

document_root == "html"

Workers == 1..NumWorkers

VARIABLES
  keep_alives,   \* volatile long keep_alives
  mongoose,      \* struct mg_context *mongoose: "NULL" or "ctx"
  main_pc,       \* position of the main thread in run_server
  read1,         \* <<v>>: value of the latest read of keep_alives in loop 1
  read2,         \* <<v>>: value of the latest read of keep_alives in loop 2
  crashed,       \* the process was killed by a fault in a worker
  ndebug,        \* the build defines NDEBUG (assets served from memory)
  files,         \* paths of the asset bundle behind get_file
  window,        \* the native reference window: "closed" or "open"
  pc,            \* pc[w]: position of worker w in the callback
  req,           \* req[w]: mg_request_info of the request of worker w
  peer,          \* peer[w]: the peer of w's connection is still connected
  i,             \* i[w]: loop variable of the warm-up loop
  chunk,         \* chunk[w]: the chunk selected for the next write
  resp,          \* resp[w]: responses written with mg_printf, in order
  ret,           \* ret[w]: <<v>>: value returned by the callback
  handler,       \* handler[w]: the branch of the router that was taken
  measured,      \* measured[w]: calls of measure_latency in this request
  incs,          \* incs[w]: increments of keep_alives by this request
  decs,          \* decs[w]: decrements of keep_alives by this request
  accepted,      \* keep-alive requests accepted so far
  increments,    \* K: increments of keep_alives performed so far
  decrements,    \* M: decrements of keep_alives performed so far
  calls,         \* calls[w]: collaborators called by this request, in order
  tester,        \* what latency_tester_available() reports at this time
  browser        \* "not_opened" or "opened": open_browser was called

vars == <<keep_alives, mongoose, main_pc, read1, read2, crashed, ndebug,
          files, window, pc, req, peer, i, chunk, resp, ret, handler,
          measured, incs, decs, accepted, increments, decrements, calls,
          tester, browser>>

---------------------------------------------------------------------------
(* Requests.                                                               *)

\* Characters of a query value: one hex digit and one character that is not.
HexDigits == {"a"}

QueryChars == {"a", "g"}

RECURSIVE SeqsUpTo(_, _)
SeqsUpTo(S, n) ==
  IF n = 0 THEN {<<>>}
  ELSE LET shorter == SeqsUpTo(S, n - 1)
       IN  shorter \cup {Append(s, c) : s \in {t \in shorter : Len(t) = n - 1}, c \in S}

\* request_info->query_string: NULL when the request has no '?', else the
\* text after it, here either without a magicPattern variable or with one.
NullQuery == [null |-> TRUE, has |-> FALSE, value |-> <<>>]

EmptyQuery == [null |-> FALSE, has |-> FALSE, value |-> <<>>]

PatternQueries ==
  {[null |-> FALSE, has |-> TRUE, value |-> v] :
     v \in SeqsUpTo(QueryChars, hex_pattern_length + 1)}

RECURSIVE Repeat(_, _)
Repeat(c, n) ==
  IF n = 0 THEN ""
  ELSE IF n = 1 THEN c
  ELSE Repeat(c, n \div 2) \o Repeat(c, n - (n \div 2))

\* A URI so long that document_root + URI + terminator is exactly max_path,
\* and the longest one that still fits.
TooLongUri == "/" \o Repeat("x", max_path - Len(document_root) - 2)

LongestUri == "/" \o Repeat("x", max_path - Len(document_root) - 3)

\* One character more: the path and its terminator do not fit max_path.
OverlongUri == "/" \o Repeat("x", max_path - Len(document_root) - 1)

\* "*" is the request URI of OPTIONS *: a URI of length 1 that is not "/".
StaticUris ==
  {"/", "*", "/index.html", "/missing.png", TooLongUri, LongestUri,
   OverlongUri}

EndpointUris ==
  {"/test", "/keepServerAlive", "/runControlTest", "/oculusLatencyTester"}

Requests ==
  {[uri |-> "/test", query |-> q] :
     q \in {NullQuery, EmptyQuery} \cup PatternQueries}
  \cup {[uri |-> u, query |-> NullQuery] : u \in (EndpointUris \ {"/test"}) \cup StaticUris}
  \cup {[uri |-> "/keepServerAlive", query |-> EmptyQuery]}

NoRequest == [uri |-> "", query |-> NullQuery]

---------------------------------------------------------------------------
(* Responses: what one mg_printf of the source puts on the connection.     *)
(* clen is the Content-Length header, -1 when the response has none.       *)

Response(status, acao, nocache, ctype, clen, body) ==
  [status |-> status, acao |-> acao, nocache |-> nocache, ctype |-> ctype,
   clen |-> clen, body |-> body]

LatencyError == Response(500, TRUE, FALSE, "text/plain", -1, "error")

LatencyOk == Response(200, TRUE, TRUE, "text/plain", -1, "json")

KeepAliveHeaders ==
  Response(200, TRUE, TRUE, "application/octet-stream", -1, "")

OculusOk == Response(200, TRUE, TRUE, "text/plain", -1, "result")

OculusError == Response(500, TRUE, TRUE, "text/plain", -1, "error")

NotFound ==
  Response(404, FALSE, TRUE, "text/plain; charset=utf-8", 25,
           "Error 404: File not found")

---------------------------------------------------------------------------
(* is_latency_test_request and its callees.                                *)

\* mg_get_var on a non-NULL query string with a destination of dst_len
\* bytes: the length of the variable's value, -1 when the variable is not
\* there, -2 when the value and its terminator do not fit the destination.
mg_get_var(query, dst_len) ==
  IF ~query.has THEN -1
  ELSE IF Len(query.value) + 1 > dst_len THEN -2
  ELSE Len(query.value)

\* parse_hex_magic_pattern: every character of the pattern is a hex digit.
parse_hex_magic_pattern(hex_pattern) ==
  \A k \in 1..Len(hex_pattern) : hex_pattern[k] \in HexDigits

\* strlen(request_info->query_string) is evaluated before mg_get_var is
\* called: with a NULL query_string the call has undefined behaviour.
StrlenOfNull(r) == r.uri = "/test" /\ r.query.null

is_latency_test_request(r) ==
  /\ r.uri = "/test"
  /\ ~r.query.null
  /\ mg_get_var(r.query, hex_pattern_length + 1) = hex_pattern_length
  /\ parse_hex_magic_pattern(r.query.value)

---------------------------------------------------------------------------
(* serve_file_from_memory_or_404.                                          *)

Take(str, n) == IF n >= Len(str) THEN str ELSE SubSeq(str, 1, n)

\* snprintf(buf, size, "%s%s", a, b): at most size - 1 characters are kept.
snprintf(size, a, b) == Take(a \o b, size - 1)

\* The default document substituted for the empty URI alone.
EffectiveUriOfEmpty(uri) == IF Len(uri) < 1 THEN "/index.html" ELSE uri

\* if (strlen(uri) < 2) uri = "/index.html";
EffectiveUri(uri) == IF Len(uri) < 2 THEN "/index.html" ELSE uri

path_length(uri) == Len(EffectiveUri(uri)) + Len(document_root) + 1

file_path(uri) == snprintf(path_length(uri), document_root, EffectiveUri(uri))

\* The lookup without the test of path_length against max_path.
LookedUpUnguarded(uri) == <<file_path(uri)>>

\* The path given to get_file, <<>> when get_file is not called.
LookedUp(uri) ==
  IF path_length(uri) < max_path THEN <<file_path(uri)>> ELSE <<>>

file_size(path) == Len(path) + 100

mg_get_builtin_mime_type(path) ==
  IF Len(path) >= 5 /\ SubSeq(path, Len(path) - 4, Len(path)) = ".html"
  THEN "text/html"
  ELSE "text/plain"

serve_file_from_memory_or_404(uri, bundle) ==
  LET looked == LookedUp(uri)
  IN  IF looked # <<>> /\ looked[1] \in bundle
      THEN Response(200, FALSE, TRUE, mg_get_builtin_mime_type(looked[1]),
                    file_size(looked[1]), looked[1])
      ELSE NotFound

---------------------------------------------------------------------------
(* Initial state: the process before run_server calls mg_start.            *)

IndexPath == "html/index.html"

BenchmarkPath == "html/latency-benchmark.html"

Bundles == {{IndexPath, BenchmarkPath}, {BenchmarkPath}}

Init ==
  /\ keep_alives = 0
  /\ mongoose = "NULL"
  /\ main_pc = "mg_start"
  /\ read1 = <<>>
  /\ read2 = <<>>
  /\ crashed = FALSE
  /\ ndebug \in BOOLEAN
  /\ files \in (IF ndebug THEN Bundles ELSE {{}})
  /\ window = "closed"
  /\ pc = [w \in Workers |-> "idle"]
  /\ req = [w \in Workers |-> NoRequest]
  /\ peer = [w \in Workers |-> FALSE]
  /\ i = [w \in Workers |-> 0]
  /\ chunk = [w \in Workers |-> "none"]
  /\ resp = [w \in Workers |-> <<>>]
  /\ ret = [w \in Workers |-> <<>>]
  /\ handler = [w \in Workers |-> "none"]
  /\ measured = [w \in Workers |-> 0]
  /\ incs = [w \in Workers |-> 0]
  /\ decs = [w \in Workers |-> 0]
  /\ accepted = 0
  /\ increments = 0
  /\ decrements = 0
  /\ calls = [w \in Workers |-> <<>>]
  /\ tester \in BOOLEAN
  /\ browser = "not_opened"

---------------------------------------------------------------------------
(* The main thread: run_server.                                            *)

\* run_server without the test of the context that mg_start returned.
AfterMgStartUnchecked(context) == "open_browser"

\* if (!mongoose) { debug_log(...); exit(1); }
AfterMgStart(context) ==
  IF context = "NULL" THEN "exit_1" ELSE "open_browser"

\* mg_start either returns a context or NULL; on NULL the process exits 1.
MgStart ==
  /\ ~crashed
  /\ main_pc = "mg_start"
  /\ \E context \in {"NULL", "ctx"} :
       /\ mongoose' = context
       /\ main_pc' = AfterMgStart(context)
  /\ UNCHANGED <<keep_alives, read1, read2, crashed, ndebug, files, window,
                 pc, req, peer, i, chunk, resp, ret, handler, measured,
                 incs, decs, accepted, increments, decrements,
                 calls, tester, browser>>

\* usleep(0), the URL and open_browser, whose result is only logged.
OpenBrowser ==
  /\ ~crashed
  /\ main_pc = "open_browser"
  /\ main_pc' = "wait_activity"
  /\ browser' = "opened"
  /\ UNCHANGED <<keep_alives, mongoose, read1, read2, crashed, ndebug, files,
                 window, pc, req, peer, i, chunk, resp, ret, handler,
                 measured, incs, decs, accepted, increments, decrements,
                 calls, tester>>

\* The first loop with the condition of the second: it is left on a read of 0.
ActivityLoopWaitsForZero(v) == v > 0

\* The condition of the first loop: while (keep_alives == 0).
ActivityLoopContinues(v) == v = 0

\* The second loop left while one session is still counted.
QuiescenceLoopOffByOne(v) == v > 1

\* The condition of the second loop: while (keep_alives > 0).
QuiescenceLoopContinues(v) == v > 0

\* One round of the first loop: a read of keep_alives for the condition
\* and, while it holds, usleep(1000 * 1000).
WaitActivity ==
  /\ ~crashed
  /\ main_pc = "wait_activity"
  /\ read1' = <<keep_alives>>
  /\ main_pc' = IF ActivityLoopContinues(keep_alives)
                THEN "wait_activity" ELSE "wait_quiescence"
  /\ UNCHANGED <<keep_alives, mongoose, read2, crashed, ndebug, files,
                 window, pc, req, peer, i, chunk, resp, ret, handler,
                 measured, incs, decs, accepted, increments, decrements,
                 calls, tester, browser>>

\* One round of the second loop: a read of keep_alives for the condition
\* and, while it holds, usleep(1000 * 100).
WaitQuiescence ==
  /\ ~crashed
  /\ main_pc = "wait_quiescence"
  /\ read2' = <<keep_alives>>
  /\ main_pc' = IF QuiescenceLoopContinues(keep_alives)
                THEN "wait_quiescence" ELSE "mg_stop"
  /\ UNCHANGED <<keep_alives, mongoose, read1, crashed, ndebug, files,
                 window, pc, req, peer, i, chunk, resp, ret, handler,
                 measured, incs, decs, accepted, increments, decrements,
                 calls, tester, browser>>

\* mg_stop(mongoose); mongoose = NULL; and run_server returns.
MgStop ==
  /\ ~crashed
  /\ main_pc = "mg_stop"
  /\ mongoose' = "NULL"
  /\ main_pc' = "returned"
  /\ UNCHANGED <<keep_alives, read1, read2, crashed, ndebug, files, window,
                 pc, req, peer, i, chunk, resp, ret, handler, measured,
                 incs, decs, accepted, increments, decrements,
                 calls, tester, browser>>

Main ==
  \/ MgStart
  \/ OpenBrowser
  \/ WaitActivity
  \/ WaitQuiescence
  \/ MgStop

---------------------------------------------------------------------------
(* The collaborators a handler calls: name, argument and outcome.          *)

Call(fn, arg, ok) == [fn |-> fn, arg |-> arg, ok |-> ok]

\* The environment: the hardware tester is plugged in or removed.
TesterChange ==
  /\ ~crashed
  /\ tester' = ~tester
  /\ UNCHANGED <<keep_alives, mongoose, main_pc, read1, read2, crashed,
                 ndebug, files, window, pc, req, peer, i, chunk, resp, ret,
                 handler, measured, incs, decs, accepted, increments,
                 decrements, calls, browser>>

---------------------------------------------------------------------------
(* The HTTP engine: the peer of a connection may disconnect at any time,    *)
(* and the engine takes the worker back after the callback has returned.   *)

\* Only mg_write in the keep-alive branch looks at its result, so a disconnect
\* is modelled for the connections of that branch.
PeerDisconnect(w) ==
  /\ ~crashed
  /\ handler[w] = "keep_alive"
  /\ pc[w] # "done"
  /\ peer[w]
  /\ peer' = [peer EXCEPT ![w] = FALSE]
  /\ UNCHANGED <<keep_alives, mongoose, main_pc, read1, read2, crashed,
                 ndebug, files, window, pc, req, i, chunk, resp, ret, handler,
                 measured, incs, decs, accepted, increments, decrements,
                 calls, tester, browser>>

\* The engine is done with the request after the callback has returned.
Finish(w) ==
  /\ ~crashed
  /\ pc[w] = "done"
  /\ pc' = [pc EXCEPT ![w] = "idle"]
  /\ req' = [req EXCEPT ![w] = NoRequest]
  /\ peer' = [peer EXCEPT ![w] = FALSE]
  /\ i' = [i EXCEPT ![w] = 0]
  /\ chunk' = [chunk EXCEPT ![w] = "none"]
  /\ resp' = [resp EXCEPT ![w] = <<>>]
  /\ ret' = [ret EXCEPT ![w] = <<>>]
  /\ handler' = [handler EXCEPT ![w] = "none"]
  /\ measured' = [measured EXCEPT ![w] = 0]
  /\ incs' = [incs EXCEPT ![w] = 0]
  /\ decs' = [decs EXCEPT ![w] = 0]
  /\ calls' = [calls EXCEPT ![w] = <<>>]
  /\ UNCHANGED <<keep_alives, mongoose, main_pc, read1, read2, crashed,
                 ndebug, files, window, accepted, increments, decrements,
                 tester, browser>>

---------------------------------------------------------------------------
(* mongoose_begin_request_callback: the router.                            *)

\* The branch of the if / else-if chain taken for request r when
\* is_latency_test_request returned isTest.
Branch(r, isTest) ==
  IF isTest THEN "report"
  ELSE IF r.uri = "/keepServerAlive" THEN "keep_alive"
  ELSE IF r.uri = "/runControlTest" THEN "control_test"
  ELSE IF r.uri = "/oculusLatencyTester" THEN "oculus"
  ELSE "static"

\* KaNext with a return on the break that skips the decrement.
KaNextReturnOnBreak(p) ==
  CASE p = "keep_alive" -> "ka_inc"
    [] p = "ka_inc"     -> "ka_headers"
    [] p = "ka_headers" -> "ka_avail"
    [] p = "ka_avail"   -> "ka_warmup"
    [] p = "ka_warmup"  -> "ka_loop"
    [] p = "ka_break"   -> "done"
    [] p = "ka_dec"     -> "done"

\* KaNext with the increment placed after the response headers.
KaNextHeadersFirst(p) ==
  CASE p = "keep_alive" -> "ka_headers"
    [] p = "ka_headers" -> "ka_inc"
    [] p = "ka_inc"     -> "ka_avail"
    [] p = "ka_avail"   -> "ka_warmup"
    [] p = "ka_warmup"  -> "ka_loop"
    [] p = "ka_break"   -> "ka_dec"
    [] p = "ka_dec"     -> "done"

\* The order of the statements of the keep-alive branch.
KaNext(p) ==
  CASE p = "keep_alive" -> "ka_inc"
    [] p = "ka_inc"     -> "ka_headers"
    [] p = "ka_headers" -> "ka_avail"
    [] p = "ka_avail"   -> "ka_warmup"
    [] p = "ka_warmup"  -> "ka_loop"
    [] p = "ka_break"   -> "ka_dec"
    [] p = "ka_dec"     -> "done"

\* The control test with the window closed before the measurement.
RcNextCloseFirst(p) ==
  CASE p = "control_test" -> "rc_open"
    [] p = "rc_open"      -> "rc_close"
    [] p = "rc_close"     -> "rc_report"
    [] p = "rc_report"    -> "done"

\* The order of the statements of the /runControlTest branch.
RcNext(p) ==
  CASE p = "control_test" -> "rc_open"
    [] p = "rc_open"      -> "rc_report"
    [] p = "rc_report"    -> "rc_close"
    [] p = "rc_close"     -> "done"

FirstPc(branch) ==
  CASE branch = "report"       -> "report"
    [] branch = "keep_alive"   -> KaNext("keep_alive")
    [] branch = "control_test" -> RcNext("control_test")
    [] branch = "oculus"       -> "oculus"
    [] branch = "static"       -> "static"

\* The engine hands request r to idle worker w and the callback is entered:
\* is_latency_test_request is evaluated and the chain of strcmp calls selects
\* the branch.  strlen of a NULL query string either faults (the process
\* dies) or yields a length that mg_get_var, given NULL data, never uses, and
\* the function returns false.
Route(w) ==
  /\ ~crashed
  /\ mongoose = "ctx"
  /\ pc[w] = "idle"
  /\ \E r \in Requests :
       /\ r.uri = "/keepServerAlive" => accepted < MaxSessions
       /\ accepted' = IF r.uri = "/keepServerAlive" THEN accepted + 1 ELSE accepted
       /\ req' = [req EXCEPT ![w] = r]
       /\ IF StrlenOfNull(r)
          THEN \E fault \in BOOLEAN :
                 IF fault
                 THEN /\ crashed' = TRUE
                      /\ pc' = [pc EXCEPT ![w] = "fault"]
                      /\ UNCHANGED handler
                 ELSE /\ crashed' = FALSE
                      /\ handler' = [handler EXCEPT ![w] = Branch(r, FALSE)]
                      /\ pc' = [pc EXCEPT ![w] = FirstPc(Branch(r, FALSE))]
          ELSE /\ crashed' = FALSE
               /\ handler' = [handler EXCEPT ![w] =
                                Branch(r, is_latency_test_request(r))]
               /\ pc' = [pc EXCEPT ![w] =
                           FirstPc(Branch(r, is_latency_test_request(r)))]
  /\ peer' = [peer EXCEPT ![w] = TRUE]
  /\ UNCHANGED <<keep_alives, mongoose, main_pc, read1, read2, ndebug, files,
                 window, i, chunk, resp, ret, measured, incs, decs,
                 increments, decrements,
                 calls, tester, browser>>

\* report_latency answering 200 whatever measure_latency returned.
report_latency_ignoring_result(ok) == LatencyOk

\* report_latency: one call of measure_latency and one mg_printf.
report_latency(ok) == IF ok THEN LatencyOk ELSE LatencyError

\* Rule 1: report_latency(connection, magic_pattern); return 1.
Report(w) ==
  /\ ~crashed
  /\ pc[w] = "report"
  /\ \E ok \in BOOLEAN :
       /\ calls' = [calls EXCEPT ![w] =
                      Append(@, Call("measure_latency", "", ok))]
       /\ resp' = [resp EXCEPT ![w] = Append(@, report_latency(ok))]
  /\ measured' = [measured EXCEPT ![w] = @ + 1]
  /\ ret' = [ret EXCEPT ![w] = <<1>>]
  /\ pc' = [pc EXCEPT ![w] = "done"]
  /\ UNCHANGED <<keep_alives, mongoose, main_pc, read1, read2, crashed,
                 ndebug, files, window, req, peer, i, chunk, handler, incs,
                 decs, accepted, increments, decrements,
                 tester, browser>>

---------------------------------------------------------------------------
(* Rule 2: the keep-alive streaming handler.                               *)

chunk_size == 6

\* A flag in place of a count: an increment of a counter already raised is
\* lost.
fetch_and_add_flag(v, d) == IF v + d > 1 THEN 1 ELSE v + d

\* __sync_fetch_and_add(&keep_alives, d): one atomic read-modify-write.
fetch_and_add(v, d) == v + d

\* The two chunks exchanged.
SelectChunkInverted(available) == IF available THEN "0" ELSE "1"

\* latency_tester_available() ? chunk1 : chunk0
SelectChunk(available) == IF available THEN "1" ELSE "0"

\* mg_write: the number of bytes written, 0 when the peer has disconnected.
mg_write(connected, len) == IF connected THEN len ELSE 0

\* A warm-up loop that is left on the first write that fails.
WarmupStopsOnFailure(k, written) == k < warmup_chunks /\ written # 0

\* for (int i = 0; i < warmup_chunks; i++): the result of mg_write is ignored.
WarmupContinues(k, written) == k < warmup_chunks

\* if (!mg_write(connection, chunk, chunk_size)) break;
LoopBreaks(written) == written = 0

KaInc(w) ==
  /\ ~crashed
  /\ pc[w] = "ka_inc"
  /\ keep_alives' = fetch_and_add(keep_alives, 1)
  /\ incs' = [incs EXCEPT ![w] = @ + 1]
  /\ increments' = increments + 1
  /\ pc' = [pc EXCEPT ![w] = KaNext("ka_inc")]
  /\ UNCHANGED <<mongoose, main_pc, read1, read2, crashed, ndebug, files,
                 window, req, peer, i, chunk, resp, ret, handler, measured,
                 decs, accepted, decrements,
                 calls, tester, browser>>

KaHeaders(w) ==
  /\ ~crashed
  /\ pc[w] = "ka_headers"
  /\ resp' = [resp EXCEPT ![w] = Append(@, KeepAliveHeaders)]
  /\ pc' = [pc EXCEPT ![w] = KaNext("ka_headers")]
  /\ UNCHANGED <<keep_alives, mongoose, main_pc, read1, read2, crashed,
                 ndebug, files, window, req, peer, i, chunk, ret, handler,
                 measured, incs, decs, accepted, increments, decrements,
                 calls, tester, browser>>

\* The chunk of the warm-up burst is selected once, before the loop.
KaAvail(w) ==
  /\ ~crashed
  /\ pc[w] = "ka_avail"
  /\ chunk' = [chunk EXCEPT ![w] = SelectChunk(tester)]
  /\ i' = [i EXCEPT ![w] = 0]
  /\ pc' = [pc EXCEPT ![w] = KaNext("ka_avail")]
  /\ UNCHANGED <<keep_alives, mongoose, main_pc, read1, read2, crashed,
                 ndebug, files, window, req, peer, resp, ret, handler,
                 measured, incs, decs, accepted, increments, decrements,
                 calls, tester, browser>>

\* for (int i = 0; i < warmup_chunks; i++) mg_write(...): the result of the
\* write is ignored.
KaWarmup(w) ==
  /\ ~crashed
  /\ pc[w] = "ka_warmup"
  /\ IF WarmupContinues(i[w], mg_write(peer[w], chunk_size))
     THEN /\ i' = [i EXCEPT ![w] = @ + 1]
          /\ pc' = pc
     ELSE /\ i' = i
          /\ pc' = [pc EXCEPT ![w] = KaNext("ka_warmup")]
  /\ UNCHANGED <<keep_alives, mongoose, main_pc, read1, read2, crashed,
                 ndebug, files, window, req, peer, chunk, resp, ret, handler,
                 measured, incs, decs, accepted, increments, decrements,
                 calls, tester, browser>>

\* One round of while(true): select the chunk, write it, break on failure.
KaLoop(w) ==
  /\ ~crashed
  /\ pc[w] = "ka_loop"
  /\ chunk' = [chunk EXCEPT ![w] = SelectChunk(tester)]
  /\ pc' = [pc EXCEPT ![w] =
              IF LoopBreaks(mg_write(peer[w], chunk_size))
              THEN KaNext("ka_break") ELSE "ka_sleep"]
  /\ UNCHANGED <<keep_alives, mongoose, main_pc, read1, read2, crashed,
                 ndebug, files, window, req, peer, i, resp, ret, handler,
                 measured, incs, decs, accepted, increments, decrements,
                 calls, tester, browser>>

\* usleep(1000 * 1000) between two steady-state writes.
KaSleep(w) ==
  /\ ~crashed
  /\ pc[w] = "ka_sleep"
  /\ pc' = [pc EXCEPT ![w] = "ka_loop"]
  /\ UNCHANGED <<keep_alives, mongoose, main_pc, read1, read2, crashed,
                 ndebug, files, window, req, peer, i, chunk, resp, ret,
                 handler, measured, incs, decs, accepted, increments,
                 decrements,
                 calls, tester, browser>>

\* __sync_fetch_and_add(&keep_alives, -1); return 1;
KaDec(w) ==
  /\ ~crashed
  /\ pc[w] = "ka_dec"
  /\ keep_alives' = fetch_and_add(keep_alives, -1)
  /\ decs' = [decs EXCEPT ![w] = @ + 1]
  /\ decrements' = decrements + 1
  /\ ret' = [ret EXCEPT ![w] = <<1>>]
  /\ pc' = [pc EXCEPT ![w] = KaNext("ka_dec")]
  /\ UNCHANGED <<mongoose, main_pc, read1, read2, crashed, ndebug, files,
                 window, req, peer, i, chunk, resp, handler, measured, incs,
                 accepted, increments,
                 calls, tester, browser>>

---------------------------------------------------------------------------
(* Rule 3: the synthetic control test.                                     *)

\* malloc, memset, rand and open_native_reference_window(test_pattern).
RcOpen(w) ==
  /\ ~crashed
  /\ pc[w] = "rc_open"
  /\ window' = "open"
  /\ calls' = [calls EXCEPT ![w] =
                 Append(@, Call("open_native_reference_window", "", TRUE))]
  /\ pc' = [pc EXCEPT ![w] = RcNext("rc_open")]
  /\ UNCHANGED <<keep_alives, mongoose, main_pc, read1, read2, crashed,
                 ndebug, files, req, peer, i, chunk, resp, ret, handler,
                 measured, incs, decs, accepted, increments, decrements,
                 tester, browser>>

\* report_latency(connection, test_pattern).
RcReport(w) ==
  /\ ~crashed
  /\ pc[w] = "rc_report"
  /\ \E ok \in BOOLEAN :
       /\ calls' = [calls EXCEPT ![w] =
                      Append(@, Call("measure_latency", "", ok))]
       /\ resp' = [resp EXCEPT ![w] = Append(@, report_latency(ok))]
  /\ measured' = [measured EXCEPT ![w] = @ + 1]
  /\ pc' = [pc EXCEPT ![w] = RcNext("rc_report")]
  /\ UNCHANGED <<keep_alives, mongoose, main_pc, read1, read2, crashed,
                 ndebug, files, window, req, peer, i, chunk, ret, handler,
                 incs, decs, accepted, increments, decrements,
                 tester, browser>>

\* close_native_reference_window(); return 1;
RcClose(w) ==
  /\ ~crashed
  /\ pc[w] = "rc_close"
  /\ window' = "closed"
  /\ ret' = [ret EXCEPT ![w] = <<1>>]
  /\ calls' = [calls EXCEPT ![w] =
                 Append(@, Call("close_native_reference_window", "", TRUE))]
  /\ pc' = [pc EXCEPT ![w] = RcNext("rc_close")]
  /\ UNCHANGED <<keep_alives, mongoose, main_pc, read1, read2, crashed,
                 ndebug, files, req, peer, i, chunk, resp, handler, measured,
                 incs, decs, accepted, increments, decrements,
                 tester, browser>>

---------------------------------------------------------------------------
(* Rule 4: the hardware latency test.                                      *)

OculusResponse(ok) == IF ok THEN OculusOk ELSE OculusError

Oculus(w) ==
  /\ ~crashed
  /\ pc[w] = "oculus"
  /\ \E ok \in BOOLEAN :
       /\ calls' = [calls EXCEPT ![w] =
                      Append(@, Call("run_hardware_latency_test", "", ok))]
       /\ resp' = [resp EXCEPT ![w] = Append(@, OculusResponse(ok))]
  /\ ret' = [ret EXCEPT ![w] = <<1>>]
  /\ pc' = [pc EXCEPT ![w] = "done"]
  /\ UNCHANGED <<keep_alives, mongoose, main_pc, read1, read2, crashed,
                 ndebug, files, window, req, peer, i, chunk, handler,
                 measured, incs, decs, accepted, increments, decrements,
                 tester, browser>>

---------------------------------------------------------------------------
(* Rule 5: static serving, from memory with NDEBUG, else left to mongoose. *)
(* Nothing reads the query string of the request from here on: the model   *)
(* keeps the URI alone.                                                    *)

\* The value returned by the last branch.
StaticReturn(bundled) == IF bundled THEN 1 ELSE 0

Static(w) ==
  /\ ~crashed
  /\ pc[w] = "static"
  /\ resp' = IF ndebug
             THEN [resp EXCEPT ![w] =
                     Append(@, serve_file_from_memory_or_404(req[w].uri, files))]
             ELSE resp
  /\ calls' = IF ndebug /\ LookedUp(req[w].uri) # <<>>
              THEN [calls EXCEPT ![w] =
                      Append(@, Call("get_file", LookedUp(req[w].uri)[1],
                                     LookedUp(req[w].uri)[1] \in files))]
              ELSE calls
  /\ ret' = [ret EXCEPT ![w] = <<StaticReturn(ndebug)>>]
  /\ req' = [req EXCEPT ![w].query = NullQuery]
  /\ pc' = [pc EXCEPT ![w] = "done"]
  /\ UNCHANGED <<keep_alives, mongoose, main_pc, read1, read2, crashed,
                 ndebug, files, window, peer, i, chunk, handler,
                 measured, incs, decs, accepted, increments, decrements,
                 tester, browser>>

---------------------------------------------------------------------------
(* The specifications.                                                     *)

\* The steps of worker w inside the callback.
Callback(w) ==
  \/ Route(w)
  \/ Report(w)
  \/ KaInc(w)
  \/ KaHeaders(w)
  \/ KaAvail(w)
  \/ KaWarmup(w)
  \/ KaLoop(w)
  \/ KaSleep(w)
  \/ KaDec(w)
  \/ RcOpen(w)
  \/ RcReport(w)
  \/ RcClose(w)
  \/ Oculus(w)
  \/ Static(w)

Engine(w) ==
  \/ PeerDisconnect(w)
  \/ Finish(w)

Next ==
  \/ Main
  \/ TesterChange
  \/ \E w \in Workers : Callback(w)
  \/ \E w \in Workers : Engine(w)

Spec == Init /\ [][Next]_vars

\* The operating system schedules every thread that can run: the main
\* thread and every worker inside the callback keep taking steps.  Nothing
\* is assumed of the browser (new requests, disconnects).
FairSpec ==
  /\ Spec
  /\ WF_vars(Main)
  /\ \A w \in Workers : WF_vars(Callback(w) \/ Finish(w))

---------------------------------------------------------------------------
(* Properties of the keep-alive counter and of the control loop.           *)

\* Worker w is between its increment and its decrement of keep_alives.
Counted(w) == incs[w] > decs[w]

\* Worker w runs the keep-alive handler and has not returned from it.
KeepAliveActive(w) == handler[w] = "keep_alive" /\ pc[w] # "done"

\* Worker w is writing to the connection or sleeping between two writes.
WritingOrSleeping(w) ==
  pc[w] \in {"ka_headers", "ka_avail", "ka_warmup", "ka_loop", "ka_sleep"}

\* C1: every keep-alive handler instance has incremented keep_alives exactly
\* once from its entry on and decrements it exactly once, when it leaves, and
\* no other request touches the counter; keep_alives is never negative.
C1_PairedNeverNegative ==
  /\ keep_alives >= 0
  /\ \A w \in Workers :
       /\ incs[w] \in {0, 1}
       /\ decs[w] \in {0, 1}
       /\ decs[w] <= incs[w]
       /\ handler[w] # "keep_alive" => incs[w] = 0 /\ decs[w] = 0
       /\ handler[w] = "keep_alive" /\ pc[w] # "ka_inc" => incs[w] = 1
       /\ handler[w] = "keep_alive" /\ pc[w] = "done" => decs[w] = 1
       /\ handler[w] = "keep_alive" /\ pc[w] # "done" => decs[w] = 0

\* Two handlers overlapped, and one of them has returned.
C1_Witness ==
  \E w, v \in Workers :
    /\ handler[w] = "keep_alive" /\ pc[w] = "done"
    /\ incs[w] = 1 /\ decs[w] = 1
    /\ pc[v] = "ka_sleep"
    /\ keep_alives = 1

\* C2: the control loop is past its first loop only with a read of a
\* non-zero keep_alives, and past its second loop only with a later read of a
\* keep_alives not greater than 0; while it is in a loop, every read so far
\* of that loop satisfied the loop's condition.
C2_LoopGates ==
  /\ main_pc = "wait_activity" => read1 = <<>> \/ read1[1] = 0
  /\ main_pc \in {"wait_quiescence", "mg_stop", "returned"} =>
       read1 # <<>> /\ read1[1] # 0
  /\ main_pc = "wait_quiescence" => read2 = <<>> \/ read2[1] > 0
  /\ main_pc \in {"mg_stop", "returned"} => read2 # <<>> /\ ~(read2[1] > 0)
  /\ read2 # <<>> => read1 # <<>> /\ read1[1] # 0
  /\ main_pc \in {"mg_start", "open_browser", "exit_1"} =>
       read1 = <<>> /\ read2 = <<>>

\* run_server has returned after it saw two sessions and then none.
C2_Witness ==
  main_pc = "returned" /\ read1 = <<2>> /\ read2 = <<0>> /\ mongoose = "NULL"

\* C3 as stated: mg_stop is never about to be called while a handler is
\* between its increment and its decrement.
C3_NoStopWhileCounted ==
  main_pc = "mg_stop" => \A w \in Workers : ~Counted(w)

\* C3 as amended: the read of keep_alives on which the control loop leaves
\* its second loop for mg_stop happens when no handler is between its
\* increment and its decrement.
C3_NoSessionAtLastRead ==
  [][main_pc = "wait_quiescence" /\ main_pc' = "mg_stop" =>
       \A w \in Workers : ~Counted(w)]_vars

\* The control loop is about to call mg_stop after two sessions were open
\* and closed.
C3_Witness ==
  /\ main_pc = "mg_stop"
  /\ read2 = <<0>>
  /\ decrements = 2
  /\ \A w \in Workers : ~Counted(w)

\* C4: if a session was established and from some point on the process runs
\* with no keep-alive handler active, run_server eventually returns.
C4_EventualShutdown ==
  (<>(increments > 0) /\ <>[](~crashed /\ \A w \in Workers : ~KeepAliveActive(w)))
    => <>(main_pc = "returned")

\* C5: keep_alives is its initial value 0 plus the increments performed
\* minus the decrements performed.
C5_NoLostUpdate == keep_alives = 0 + increments - decrements

\* Two increments and one decrement have been performed by two handlers that
\* overlapped.
C5_Witness ==
  /\ increments = 2
  /\ decrements = 1
  /\ \E w \in Workers : Counted(w) /\ pc[w] = "ka_loop"

\* C6: a handler that is writing or sleeping is counted; a keep-alive
\* handler that has not incremented yet has written nothing, and one that
\* has decremented attempts no further write.
C6_CountedWhileWriting ==
  /\ \A w \in Workers :
       /\ WritingOrSleeping(w) => Counted(w)
       /\ handler[w] = "keep_alive" /\ incs[w] = 0 => resp[w] = <<>> /\ i[w] = 0
       /\ decs[w] = 1 => pc[w] = "done"
  /\ keep_alives >= Cardinality({w \in Workers : WritingOrSleeping(w)})

\* Both workers are counted, one sleeping between writes, one in warm-up.
C6_Witness ==
  \E w, v \in Workers :
    /\ pc[w] = "ka_sleep" /\ pc[v] = "ka_warmup" /\ i[v] > 0
    /\ Counted(w) /\ Counted(v)
    /\ keep_alives = 2

\* C7: a handler leaves its steady-state loop only on a failed write, and a
\* counted handler whose peer has disconnected eventually is counted no
\* more: keep_alives is back at the value it had without this handler.
C7_ExitsAfterDisconnect ==
  /\ [][\A w \in Workers :
          pc[w] \in {"ka_loop", "ka_sleep"} /\ pc'[w] \notin {"ka_loop", "ka_sleep"}
            => ~peer[w] /\ pc[w] = "ka_loop"]_vars
  /\ \A w \in Workers :
       (Counted(w) /\ ~peer[w]) ~> (~Counted(w) /\ decs[w] = 1)

---------------------------------------------------------------------------
(* Properties of the router.                                               *)

\* Request r has the path /test and no valid magicPattern.
MalformedTest(r) == r.uri = "/test" /\ ~is_latency_test_request(r)

\* What the callback leaves behind for a static path that is in no bundle.
UnknownStaticResult(w) ==
  IF ndebug
  THEN resp[w] = <<serve_file_from_memory_or_404("/missing.png", files)>>
       /\ resp[w] = <<NotFound>> /\ ret[w] = <<1>>
  ELSE resp[w] = <<>> /\ ret[w] = <<0>>

\* C8: a /test request without a valid magicPattern takes the static branch,
\* never calls measure_latency, is never answered with a 500, and ends with
\* the result of a request for an unknown static path.
C8_MalformedTestFallsThrough ==
  \A w \in Workers :
    pc[w] # "idle" /\ MalformedTest(req[w]) =>
      /\ handler[w] = "static"
      /\ measured[w] = 0
      /\ \A k \in 1..Len(resp[w]) : resp[w][k].status # 500
      /\ pc[w] = "done" => UnknownStaticResult(w)

\* C9: every response of the measurement report, of the control test and of
\* the hardware test carries Access-Control-Allow-Origin: * and
\* Cache-Control: no-cache.
C9_CorsAndNoCache ==
  \A w \in Workers :
    handler[w] \in {"report", "control_test", "oculus"} =>
      \A k \in 1..Len(resp[w]) : resp[w][k].acao /\ resp[w][k].nocache

\* The rule of the dispatch table that request r matches first.
FirstMatchingRule(r) ==
  CASE r.uri = "/test" /\ ~r.query.null /\ r.query.has
         /\ Len(r.query.value) = hex_pattern_length
         /\ (\A k \in 1..Len(r.query.value) : r.query.value[k] \in HexDigits)
                                  -> "report"
    [] r.uri = "/keepServerAlive"     -> "keep_alive"
    [] r.uri = "/runControlTest"      -> "control_test"
    [] r.uri = "/oculusLatencyTester" -> "oculus"
    [] OTHER                          -> "static"

\* C10: every request a worker has taken is in the hands of the handler of
\* its first matching rule; the callback returns 1, except for the static
\* rule without NDEBUG, where it returns 0 and has written nothing.
C10_FirstMatchDispatch ==
  \A w \in Workers :
    pc[w] # "idle" =>
      /\ handler[w] = FirstMatchingRule(req[w])
      /\ pc[w] = "done" =>
           IF handler[w] = "static" /\ ~ndebug
           THEN ret[w] = <<0>> /\ resp[w] = <<>>
           ELSE ret[w] = <<1>> /\ Len(resp[w]) = 1

---------------------------------------------------------------------------
(* Properties of the handlers that call a collaborator.                    *)

\* The names of the collaborators worker w has called for its request.
CallNames(w) == [k \in 1..Len(calls[w]) |-> calls[w][k].fn]

IsPrefix(a, b) == Len(a) <= Len(b) /\ a = SubSeq(b, 1, Len(a))

\* The collaborators of the /runControlTest branch, in the order of the code.
RcOrder ==
  <<"open_native_reference_window", "measure_latency",
    "close_native_reference_window">>

\* C11: a /runControlTest handler opens the reference window, then measures
\* and writes the report, then closes the window, in that order; when it
\* returns it has closed the window exactly once, whether the measurement
\* succeeded or failed.
C11_OpenReportClose ==
  \A w \in Workers :
    handler[w] = "control_test" =>
      /\ IsPrefix(CallNames(w), RcOrder)
      /\ Len(resp[w]) = (IF Len(calls[w]) >= 2 THEN 1 ELSE 0)
      /\ pc[w] = "done" => CallNames(w) = RcOrder /\ ret[w] = <<1>>

\* A control test whose measurement failed has returned.
C11_Witness ==
  \E w \in Workers :
    /\ handler[w] = "control_test" /\ pc[w] = "done"
    /\ ~calls[w][2].ok /\ resp[w][1].status = 500
    /\ calls[w][3].fn = "close_native_reference_window"

\* The collaborator behind the handler of a measurement or hardware test.
Collaborator(h) ==
  IF h = "oculus" THEN "run_hardware_latency_test" ELSE "measure_latency"

IsCollaboratorCall(w, c) == c.fn = Collaborator(handler[w])

\* The calls worker w has made of the collaborator of its handler.
CollaboratorCalls(w) ==
  SelectSeq(calls[w], LAMBDA c : IsCollaboratorCall(w, c))

\* C12: a request of the measurement report (/test, /runControlTest) or of
\* the hardware test calls its collaborator at most once and writes one
\* response with that call; when the handler returns there is exactly one
\* call and one response, 200 if and only if the collaborator reported
\* success and otherwise 500 with the error text.
C12_OneCallOneResponse ==
  \A w \in Workers :
    handler[w] \in {"report", "control_test", "oculus"} =>
      /\ Len(CollaboratorCalls(w)) <= 1
      /\ Len(resp[w]) = Len(CollaboratorCalls(w))
      /\ pc[w] = "done" => Len(resp[w]) = 1
      /\ Len(resp[w]) = 1 =>
           IF CollaboratorCalls(w)[1].ok
           THEN resp[w][1].status = 200
           ELSE resp[w][1].status = 500 /\ resp[w][1].body = "error"

\* A /test request whose measurement failed has been answered.
C12_Witness ==
  \E w \in Workers :
    /\ handler[w] = "report" /\ pc[w] = "done"
    /\ calls[w] = <<Call("measure_latency", "", FALSE)>>
    /\ Len(resp[w]) = 1 /\ resp[w][1].status = 500

---------------------------------------------------------------------------
(* Properties of serve_file_from_memory_or_404.                            *)

\* Worker w has served a static request from the bundle and returned.
ServedFromMemory(w) == ndebug /\ handler[w] = "static" /\ pc[w] = "done"

\* C13: with the assets in memory, the response to a URI shorter than two
\* characters is the response to /index.html: same status, headers, content
\* type, content length and body, whether or not the bundle holds the index
\* document.
C13_RootIsIndex ==
  \A w \in Workers :
    ServedFromMemory(w) /\ Len(req[w].uri) < 2 =>
      resp[w] = <<serve_file_from_memory_or_404("/index.html", files)>>

\* A request for a one-character URI was answered with the index document.
C13_Witness ==
  \E w \in Workers :
    /\ ServedFromMemory(w) /\ Len(req[w].uri) = 1
    /\ IndexPath \in files
    /\ resp[w][1].status = 200 /\ resp[w][1].body = IndexPath
    /\ resp[w][1].clen = file_size(IndexPath)

\* The calls of get_file worker w has made.
IsLookup(c) == c.fn = "get_file"

Lookups(w) == SelectSeq(calls[w], IsLookup)

\* document_root followed by the whole URI that is served.
FullPath(uri) ==
  document_root \o (IF Len(uri) < 2 THEN "/index.html" ELSE uri)

\* C14: a URI whose path with its terminator does not fit max_path bytes is
\* answered 404 without a call of get_file; every path that is looked up
\* fits the buffer with its terminator and is document_root followed by the
\* whole URI.
C14_PathGuard ==
  \A w \in Workers :
    ServedFromMemory(w) =>
      /\ Len(FullPath(req[w].uri)) + 1 > max_path =>
           Lookups(w) = <<>> /\ resp[w] = <<NotFound>>
      /\ \A k \in 1..Len(Lookups(w)) :
           /\ Len(Lookups(w)[k].arg) + 1 <= max_path
           /\ Lookups(w)[k].arg = FullPath(req[w].uri)

\* One request with a path that does not fit was answered 404 without a
\* lookup, and one with the longest path the guard lets through was looked up.
C14_Witness ==
  /\ \E w \in Workers :
       /\ ServedFromMemory(w) /\ req[w].uri = OverlongUri
       /\ calls[w] = <<>> /\ resp[w] = <<NotFound>>
  /\ \E w \in Workers :
       /\ ServedFromMemory(w) /\ req[w].uri = LongestUri
       /\ Len(Lookups(w)) = 1
       /\ Len(Lookups(w)[1].arg) + 1 = max_path - 1

---------------------------------------------------------------------------
(* Properties of the keep-alive stream.                                    *)

\* Worker w writes one chunk of the warm-up burst in this step.
WarmupWrite(w) == pc[w] = "ka_warmup" /\ i'[w] = i[w] + 1

\* Worker w runs one round of the steady-state loop in this step: the
\* availability check and the write of the chunk it selects.
SteadyWrite(w) == pc[w] = "ka_loop" /\ pc'[w] # "ka_loop"

\* C15 as claimed: every chunk, of the warm-up burst and of the steady
\* state, carries the status the availability check reports when the chunk
\* is emitted.
C15_FreshStatusPerChunk ==
  [][\A w \in Workers :
       /\ WarmupWrite(w) => chunk[w] = (IF tester THEN "1" ELSE "0")
       /\ SteadyWrite(w) => chunk'[w] = (IF tester THEN "1" ELSE "0")]_vars

\* C15: the status of the warm-up burst is checked once, before the first
\* chunk, and every chunk of the burst carries that status; every
\* steady-state chunk carries the status checked for that chunk.
C15_BurstStatusCheckedOnce ==
  [][\A w \in Workers :
       /\ pc[w] = "ka_avail" /\ pc'[w] = "ka_warmup" =>
            chunk'[w] = (IF tester THEN "1" ELSE "0")
       /\ WarmupWrite(w) => chunk'[w] = chunk[w] /\ chunk[w] # "none"
       /\ SteadyWrite(w) => chunk'[w] = (IF tester THEN "1" ELSE "0")]_vars

\* The tester was removed in the middle of a burst of '1' chunks.
C15_Witness ==
  \E w \in Workers :
    /\ pc[w] = "ka_warmup" /\ i[w] >= 1 /\ i[w] < warmup_chunks
    /\ chunk[w] = "1" /\ ~tester

---------------------------------------------------------------------------
(* Properties of run_server.                                               *)

\* C16: when mg_start has returned no context the process is at exit(1):
\* the browser was not opened, keep_alives was never polled and no worker
\* has taken a request.
C16_StartFailureExits ==
  mongoose = "NULL" /\ main_pc \notin {"mg_start", "returned"} =>
    /\ main_pc = "exit_1"
    /\ browser = "not_opened"
    /\ read1 = <<>> /\ read2 = <<>>
    /\ accepted = 0
    /\ \A w \in Workers :
         pc[w] = "idle" /\ handler[w] = "none" /\ resp[w] = <<>>

\* mg_start failed and the process has exited.
C16_Witness == main_pc = "exit_1" /\ mongoose = "NULL"

---------------------------------------------------------------------------
(* The counter and the pool of workers.                                    *)

\* Worker w is in the keep-alive branch after its increment and before its
\* decrement.
BetweenIncAndDec(w) ==
  pc[w] \in {"ka_headers", "ka_avail", "ka_warmup", "ka_loop", "ka_sleep",
             "ka_dec"}

\* C17: keep_alives is the number of workers between the increment and the
\* decrement of the keep-alive branch, so it never exceeds the size of the
\* pool; only the increment and the decrement of that branch change it.
C17_CounterIsSessionCount ==
  /\ [](/\ keep_alives = Cardinality({w \in Workers : BetweenIncAndDec(w)})
        /\ keep_alives <= NumWorkers)
  /\ [][keep_alives' # keep_alives =>
          \E w \in Workers :
            /\ handler[w] = "keep_alive"
            /\ pc[w] \in {"ka_inc", "ka_dec"} /\ pc'[w] # pc[w]]_vars

\* Every worker of the pool is inside a session.
C17_Witness ==
  /\ keep_alives = NumWorkers
  /\ \A w \in Workers : BetweenIncAndDec(w)

\* C18: a keep-alive handler reaches its steady-state loop only after
\* warmup_chunks warm-up writes, whether or not they succeeded: a step of
\* the warm-up loop leads to the warm-up loop or to the steady-state loop,
\* never to a sleep or to the end of the handler; a sleep begins only after
\* a steady-state write that succeeded, and the decrement only after a
\* steady-state write that failed, so that a connection already closed is
\* counted until then.
C18_WarmupRunsToTheEnd ==
  /\ [](\A w \in Workers :
          /\ pc[w] \in {"ka_loop", "ka_sleep", "ka_dec"} =>
               i[w] = warmup_chunks
          /\ pc[w] \in {"ka_warmup", "ka_loop", "ka_sleep"} =>
               incs[w] = 1 /\ decs[w] = 0 /\ keep_alives >= 1)
  /\ [][\A w \in Workers :
          /\ pc[w] = "ka_warmup" => pc'[w] \in {"ka_warmup", "ka_loop"}
          /\ pc[w] = "ka_warmup" =>
               i'[w] \in {i[w], i[w] + 1} /\ i'[w] <= warmup_chunks
          /\ pc[w] # "ka_sleep" /\ pc'[w] = "ka_sleep" =>
               pc[w] = "ka_loop" /\ peer[w]
          /\ pc[w] # "ka_dec" /\ pc'[w] = "ka_dec" =>
               pc[w] = "ka_loop" /\ ~peer[w]]_vars

\* The connection is closed, the warm-up burst goes on and the handler is
\* still counted.
C18_Witness ==
  \E w \in Workers :
    /\ pc[w] = "ka_warmup" /\ ~peer[w]
    /\ i[w] >= 1 /\ i[w] < warmup_chunks
    /\ incs[w] = 1 /\ decs[w] = 0 /\ keep_alives >= 1

---------------------------------------------------------------------------
(* Concurrent control tests.                                               *)

\* C19: a /runControlTest handler that has opened the reference window and
\* has not finished its measurement finds the window open: no other
\* handler's close takes effect in between.
C19_WindowOpenWhileMeasuring ==
  \A w \in Workers : pc[w] = "rc_report" => window = "open"

====
